---- MODULE Spec2Model ----
(***************************************************************************)
(* A model of get_x_post.py: the URL validator, the three-strategy         *)
(* extraction pipeline of get_tweet_content, clean_tweet_data, process_url *)
(* and the batch loop of main with its output and exit codes.              *)
(*                                                                         *)
(* A Python str is a sequence of one-character strings.  The em-dash       *)
(* U+2014 is the symbol EmDash.  The fixed sentence of line 203 is a       *)
(* single symbol, since the program never looks inside it.                 *)
(***************************************************************************)
EXTENDS Integers, Sequences, FiniteSets, TLC

(***************************************************************************)
(* Characters and character classes of Python's re module.                 *)
(***************************************************************************)
EmDash == "emdash"

Digits == {"0", "1", "2", "3", "4", "5", "6", "7", "8", "9"}

Letters ==
    {"a", "b", "c", "d", "e", "f", "g", "h", "i", "j", "k", "l", "m",
     "n", "o", "p", "q", "r", "s", "t", "u", "v", "w", "x", "y", "z",
     "A", "B", "C", "D", "H", "J", "T", "X"}

\* \w
WordChars == Letters \cup Digits \cup {"_"}

\* \s
SpaceChars == {" ", "\n", "\t"}

\* an optional value: <<>> when absent (None), <<v>> when present
None == <<>>
Some(v) == <<v>>

(***************************************************************************)
(* str helpers.                                                            *)
(***************************************************************************)
\* s[i:] with a 1-based i
Drop(s, i) == SubSeq(s, i, Len(s))

\* s.startswith(lit, i-1): lit occurs in s at the 1-based position i
HasAt(s, i, lit) ==
    /\ i >= 1
    /\ i + Len(lit) - 1 <= Len(s)
    /\ \A k \in 1..Len(lit) : s[i + k - 1] = lit[k]

\* lit in s
Contains(s, lit) == \E i \in 1..(Len(s) + 1) : HasAt(s, i, lit)

\* s.find(lit) + 1, and 0 when lit does not occur
Find(s, lit) ==
    IF Contains(s, lit)
    THEN CHOOSE i \in 1..(Len(s) + 1) :
            /\ HasAt(s, i, lit)
            /\ \A j \in 1..(i - 1) : ~HasAt(s, j, lit)
    ELSE 0

\* s.split(sep): the pieces between the occurrences of sep, left to right
RECURSIVE Split(_, _)
Split(s, sep) ==
    LET i == Find(s, sep)
    IN  IF i = 0
        THEN <<s>>
        ELSE <<SubSeq(s, 1, i - 1)>> \o Split(Drop(s, i + Len(sep)), sep)

\* s.strip()
RECURSIVE LStrip(_)
LStrip(s) ==
    IF s # <<>> /\ s[1] \in SpaceChars THEN LStrip(Tail(s)) ELSE s

RECURSIVE RStrip(_)
RStrip(s) ==
    IF s # <<>> /\ s[Len(s)] \in SpaceChars
    THEN RStrip(SubSeq(s, 1, Len(s) - 1))
    ELSE s

Strip(s) == RStrip(LStrip(s))

\* re.sub(r'\s+', ' ', s): every run of whitespace becomes one space
RECURSIVE CollapseSpaces(_)
CollapseSpaces(s) ==
    IF s = <<>> THEN <<>>
    ELSE IF s[1] \in SpaceChars
         THEN <<" ">> \o CollapseSpaces(LStrip(s))
         ELSE <<s[1]>> \o CollapseSpaces(Tail(s))

\* the end of the longest run of characters of class cls starting at i
\* (i - 1 when s[i] is not in cls)
RECURSIVE RunEnd(_, _, _)
RunEnd(s, i, cls) ==
    IF i <= Len(s) /\ s[i] \in cls THEN RunEnd(s, i + 1, cls) ELSE i - 1

(***************************************************************************)
(* URL validation and the fields derived from the URL (lines 19-25).       *)
(***************************************************************************)
LitHttp    == <<"h", "t", "t", "p">>
LitScheme  == <<":", "/", "/">>
LitTwitter == <<"t", "w", "i", "t", "t", "e", "r">>
LitX       == <<"x">>
LitDotCom  == <<".", "c", "o", "m", "/">>
LitStatus  == <<"/", "s", "t", "a", "t", "u", "s", "/">>

\* a literal of the pattern at position p: the position after it, 0 on failure
Lit(s, p, lit) == IF p # 0 /\ HasAt(s, p, lit) THEN p + Len(lit) ELSE 0

\* an optional literal
Opt(s, p, lit) == IF p # 0 /\ HasAt(s, p, lit) THEN p + Len(lit) ELSE p

\* (a|b): a is tried first
Alt(s, p, a, b) == IF Lit(s, p, a) # 0 THEN Lit(s, p, a) ELSE Lit(s, p, b)

\* cls+ : greedy, at least one character
Plus(s, p, cls) ==
    IF p # 0 /\ RunEnd(s, p, cls) >= p THEN RunEnd(s, p, cls) + 1 ELSE 0

\* r'https?://(twitter|x)\.com/\w+/status/\d+' matched at the start of url:
\* the position after the match, 0 when there is none.  The pattern has no
\* end anchor.  Each greedy item is followed by a character outside its
\* class, so no backtracking changes the result.
UrlMatchEnd(url) ==
    LET p1 == Opt(url, Lit(url, 1, LitHttp), <<"s">>)
        p2 == Lit(url, p1, LitScheme)
        p3 == Alt(url, p2, LitTwitter, LitX)
        p4 == Lit(url, p3, LitDotCom)
        p5 == Plus(url, p4, WordChars)
        p6 == Lit(url, p5, LitStatus)
    IN  Plus(url, p6, Digits)

\* line 20: re.match(...) is not None
UrlValid(url) == UrlMatchEnd(url) # 0

\* line 24: url.split('/')[-1].split('?')[0]
TweetIdOf(url) ==
    LET segs == Split(url, <<"/">>)
    IN  Split(segs[Len(segs)], <<"?">>)[1]

\* line 25: url.split('/')[3]
UsernameOf(url) == Split(url, <<"/">>)[4]

(***************************************************************************)
(* The record (a dict: a function from its keys) and the text pattern of   *)
(* the embed API strategy (line 62).                                       *)
(***************************************************************************)
\* d[k] = v
Put(d, k, v) == [x \in DOMAIN d \cup {k} |-> IF x = k THEN v ELSE d[x]]

\* lines 28-35
InitialRecord(url) ==
    [text |-> <<>>, created_at |-> <<>>, user_name |-> UsernameOf(url),
     screen_name |-> UsernameOf(url), tweet_id |-> TweetIdOf(url), url |-> url]

\* (?:—|\-)
SepChars == {EmDash, "-"}

LitOpenAt  == <<" ", "(", "@">>
LitCloseSp == <<")", " ">>

\* every character of s[a..b] is in cls
AllIn(s, a, b, cls) == \A x \in a..b : s[x] \in cls

\* every character of s[a..b] is matched by '.', that is, is no newline
AllDot(s, a, b) == \A x \in a..b : s[x] # "\n"

Positions(s, lit) == {p \in 1..Len(s) : HasAt(s, p, lit)}

\* The ways r'(.*?)(?:\s+)?(?:—|\-)(?:\s+)?(.+?) \(@(.+?)\) (.+)$' matches
\* the whole of t, as <<i, s, w, o, c>>: group 1 is t[1..i], the separator
\* is t[s] after the whitespace t[i+1..s-1], w whitespace characters follow
\* it, group 2 ends before the " (@" at o, group 3 before the ") " at c,
\* and group 4 is the rest.
TweetMatches(t) ==
    LET n == Len(t)
    IN  UNION {
          {<<i, s, w, o, c>> :
              i \in {x \in 0..(s - 1) :
                        AllIn(t, x + 1, s - 1, SpaceChars) /\ AllDot(t, 1, x)},
              w \in {y \in 0..(o - s - 2) :
                        AllIn(t, s + 1, s + y, SpaceChars) /\ AllDot(t, s + y + 1, n)}} :
          <<s, o, c>> \in
              {z \in {p \in 1..n : t[p] \in SepChars}
                       \X Positions(t, LitOpenAt) \X Positions(t, LitCloseSp) :
                  /\ z[1] < z[2]
                  /\ z[2] + 3 < z[3]
                  /\ z[3] + 2 <= n} }

\* the order in which the backtracking matcher tries them: group 1 lazy,
\* the whitespace after the separator greedy, groups 2 and 3 lazy
TriedBefore(a, b) ==
    \/ a[1] < b[1]
    \/ a[1] = b[1] /\ a[3] > b[3]
    \/ a[1] = b[1] /\ a[3] = b[3] /\ a[4] < b[4]
    \/ a[1] = b[1] /\ a[3] = b[3] /\ a[4] = b[4] /\ a[5] < b[5]

\* re.match(...) of line 62: None, or Some of the four groups
TweetMatch(t) ==
    LET C == TweetMatches(t)
    IN  IF C = {} THEN None
        ELSE LET m == CHOOSE a \in C : \A b \in C : b = a \/ TriedBefore(a, b)
             IN  Some([body |-> SubSeq(t, 1, m[1]),
                       user |-> SubSeq(t, m[2] + m[3] + 1, m[4] - 1),
                       screen_name |-> SubSeq(t, m[4] + 3, m[5] - 1),
                       date |-> SubSeq(t, m[5] + 2, Len(t))])

(***************************************************************************)
(* Strategy 1, the embed API (lines 54-87).  The JSON object the endpoint  *)
(* answers with is a function from its keys; its 'html' fragment is given  *)
(* by what the code reads of it: the visible text BeautifulSoup extracts   *)
(* and whether the raw markup holds a pic.twitter.com short link.          *)
(***************************************************************************)
\* data.get('html', '')
EmptyHtml == [visible |-> <<>>, pic |-> FALSE]

\* OEmbed setting has_media to whether a short link was found
OEmbedAlwaysFlags(result, username, data) ==
    LET html_content == IF "html" \in DOMAIN data THEN data.html ELSE EmptyHtml
        tweet_text == Strip(html_content.visible)
        tweet_match == TweetMatch(tweet_text)
        g == tweet_match[1]
        filled ==
            IF tweet_match # None
            THEN [result EXCEPT
                    !.text = Strip(g.body),
                    !.user_name = Strip(g.user),
                    !.screen_name = Strip(g.screen_name),
                    !.created_at = IF Strip(g.date) # <<>> THEN Strip(g.date) ELSE @]
            ELSE [result EXCEPT
                    !.text = CollapseSpaces(tweet_text),
                    !.user_name = IF "author_name" \in DOMAIN data
                                  THEN data.author_name ELSE username]
    IN  IF "html" \in DOMAIN data
        THEN Put(filled, "has_media", data.html.pic)
        ELSE filled

\* lines 55-87, for a response whose JSON parsed to the object data
OEmbed(result, username, data) ==
    LET html_content == IF "html" \in DOMAIN data THEN data.html ELSE EmptyHtml
        tweet_text == Strip(html_content.visible)
        tweet_match == TweetMatch(tweet_text)
        g == tweet_match[1]
        filled ==
            IF tweet_match # None
            THEN [result EXCEPT
                    !.text = Strip(g.body),
                    !.user_name = Strip(g.user),
                    !.screen_name = Strip(g.screen_name),
                    !.created_at = IF Strip(g.date) # <<>> THEN Strip(g.date) ELSE @]
            ELSE [result EXCEPT
                    !.text = CollapseSpaces(tweet_text),
                    !.user_name = IF "author_name" \in DOMAIN data
                                  THEN data.author_name ELSE username]
    IN  IF "html" \in DOMAIN data /\ data.html.pic
        THEN Put(filled, "has_media", TRUE)
        ELSE filled

(***************************************************************************)
(* Strategy 2, the post's own page (lines 95-154).  The page is given by   *)
(* the attributes the code reads: each is <<>> when the tag is missing or  *)
(* its attribute empty.  scripts are the JSON-LD blocks, in page order.    *)
(***************************************************************************)
LitDashSep       == <<" ", EmDash, " ">>
LitPicHost       == <<"p", "i", "c", ".", "t", "w", "i", "t", "t", "e", "r", ".", "c", "o", "m", "/">>
LitOnTwitter     == <<" ", "o", "n", " ", "T", "w", "i", "t", "t", "e", "r", ":">>
LitOnX           == <<" ", "o", "n", " ", "X", ":">>
LitResponsiveWeb == <<"r", "e", "s", "p", "o", "n", "s", "i", "v", "e", "-", "w", "e", "b">>
LitProfileImages == <<"p", "r", "o", "f", "i", "l", "e", "_", "i", "m", "a", "g", "e", "s">>

\* lines 142-148 for one block: Some(date) when the loop breaks on it, None
\* when it goes on (json.loads raised, or no dict with one of the two keys)
ScriptDate(script) ==
    IF script.parse # "dict" THEN None
    ELSE IF "dateCreated" \in DOMAIN script.data THEN Some(script.data.dateCreated)
    ELSE IF "datePublished" \in DOMAIN script.data THEN Some(script.data.datePublished)
    ELSE None

\* lines 140-150 from block k on: the created_at the loop leaves.  sig is
\* the block during whose json.loads a KeyboardInterrupt arrives (0: none):
\* the bare except of line 149 catches it like any parse error
RECURSIVE ScanScripts(_, _, _, _)
ScanScripts(created_at, scripts, k, sig) ==
    IF k > Len(scripts) THEN created_at
    ELSE IF sig # k /\ ScriptDate(scripts[k]) # None
         THEN ScriptDate(scripts[k])[1]
         ELSE ScanScripts(created_at, scripts, k + 1, sig)

\* the loop of line 140 gets as far as block k
ScanReaches(scripts, k) ==
    /\ k \in 1..Len(scripts)
    /\ \A j \in 1..(k - 1) : ScriptDate(scripts[j]) = None

\* lines 99-136: the record before the JSON-LD loop
PageMeta(result, page) ==
    LET description == page.description
        r1 == IF description # <<>>
              THEN [result EXCEPT !.text =
                      IF Contains(description, LitDashSep)
                      THEN Strip(Split(description, LitDashSep)[1])
                      ELSE IF Contains(description, LitPicHost)
                      THEN Strip(Split(description, LitPicHost)[1])
                      ELSE description]
              ELSE result
        title_text == page.title
        r2 == IF title_text # <<>> /\ Contains(title_text, LitOnTwitter)
              THEN [r1 EXCEPT !.user_name = Split(title_text, LitOnTwitter)[1]]
              ELSE IF title_text # <<>> /\ Contains(title_text, LitOnX)
              THEN [r1 EXCEPT !.user_name = Split(title_text, LitOnX)[1]]
              ELSE r1
        image_url == page.image
        r3 == IF /\ image_url # <<>>
                 /\ ~(\/ Contains(image_url, LitResponsiveWeb)
                      \/ Contains(image_url, LitProfileImages))
              THEN Put(r2, "media", <<image_url>>)
              ELSE r2
        r4 == IF page.time # <<>> THEN [r3 EXCEPT !.created_at = page.time] ELSE r3
    IN  IF r4.created_at = <<>> /\ page.published_time # <<>>
        THEN [r4 EXCEPT !.created_at = page.published_time]
        ELSE r4

\* the JSON-LD loop runs (line 139)
ScanRuns(result, page) == PageMeta(result, page).created_at = <<>>

\* lines 96-150
DirectPage(result, page, sig) ==
    LET r == PageMeta(result, page)
    IN  IF r.created_at = <<>>
        THEN [r EXCEPT !.created_at = ScanScripts(@, page.scripts, 1, sig)]
        ELSE r

(***************************************************************************)
(* Strategy 3, the embed fragment (lines 165-193).  An element the         *)
(* selector does not find is None; a found one is Some of what is read.    *)
(***************************************************************************)
\* s.replace('@', '')
RECURSIVE RemoveAt(_)
RemoveAt(s) ==
    IF s = <<>> THEN <<>>
    ELSE IF s[1] = "@" THEN RemoveAt(Tail(s))
    ELSE <<s[1]>> \o RemoveAt(Tail(s))

\* [img.get('src') for img in media_elements if img.get('src')]
RECURSIVE NonEmpty(_)
NonEmpty(srcs) ==
    IF srcs = <<>> THEN <<>>
    ELSE IF srcs[1] # <<>> THEN <<srcs[1]>> \o NonEmpty(Tail(srcs))
    ELSE NonEmpty(Tail(srcs))

EmbedPage(result, frag) ==
    LET r1 == IF frag.tweet_text # None
              THEN [result EXCEPT !.text = Strip(frag.tweet_text[1])]
              ELSE result
        r2 == IF frag.fullname # None
              THEN [r1 EXCEPT !.user_name = Strip(frag.fullname[1])]
              ELSE r1
        r3 == IF frag.username # None
              THEN [r2 EXCEPT !.screen_name = RemoveAt(Strip(frag.username[1]))]
              ELSE r2
        r4 == IF frag.media # <<>>
              THEN Put(r3, "media", NonEmpty(frag.media))
              ELSE r3
    IN  IF frag.time # None /\ frag.time[1].datetime # <<>>
        THEN [r4 EXCEPT !.created_at = frag.time[1].datetime]
        ELSE IF frag.time # None /\ frag.time[1].title # <<>>
        THEN [r4 EXCEPT !.created_at = frag.time[1].title]
        ELSE r4

\* line 203; the sentence before the URL is one symbol
PlaceholderPrefix ==
    <<"Content couldn't be retrieved due to X/Twitter limitations. Please visit the link directly: ">>

PlaceholderText(url) == PlaceholderPrefix \o url

\* Fallback leaving the author name out of the placeholder record
FallbackDropsAuthor(result, url) ==
    IF result.text = <<>>
    THEN [result EXCEPT !.text = PlaceholderText(url), !.user_name = <<>>]
    ELSE result

\* Fallback storing the URL without its query string
FallbackCutsQuery(result, url) ==
    IF result.text = <<>>
    THEN [result EXCEPT !.text = PlaceholderText(url), !.url = Split(url, <<"?">>)[1]]
    ELSE result

\* lines 202-205
Fallback(result, url) ==
    IF result.text = <<>> THEN [result EXCEPT !.text = PlaceholderText(url)] ELSE result

(***************************************************************************)
(* clean_tweet_data (lines 210-217) and json.dumps.                        *)
(***************************************************************************)
\* bool(value): has_media holds a bool, every other key a str or a list
Truthy(d, k) == IF k = "has_media" THEN d[k] ELSE d[k] # <<>>

\* clean_tweet_data without the exception for has_media
clean_truthy_only(tweet_data) ==
    [k \in {x \in DOMAIN tweet_data : Truthy(tweet_data, x)} |-> tweet_data[k]]

clean_tweet_data(tweet_data) ==
    [k \in {x \in DOMAIN tweet_data : Truthy(tweet_data, x) \/ x \in {"has_media"}}
        |-> tweet_data[k]]

RECURSIVE CleanAll(_)
CleanAll(records) ==
    IF records = <<>> THEN <<>>
    ELSE <<clean_tweet_data(records[1])>> \o CleanAll(Tail(records))

\* json.dumps of a dict and of a list of dicts, with its indent argument
DumpsObject(d, indent) == [object |-> d, indent |-> indent]
DumpsArray(ds, indent) == [array |-> ds, indent |-> indent]

(***************************************************************************)
(* Inputs: URL strings, standard-input lines and command lines.            *)
(***************************************************************************)
SchemeHttps == <<"h", "t", "t", "p", "s">>
SchemeHttp  == <<"h", "t", "t", "p">>
SchemeFtp   == <<"f", "t", "p">>
HostX       == <<"x", ".", "c", "o", "m">>
HostTwitter == <<"t", "w", "i", "t", "t", "e", "r", ".", "c", "o", "m">>
HostExample == <<"e", "x", "a", "m", "p", "l", "e", ".", "c", "o", "m">>
PathAl      == <<"/", "a", "l", "/", "s", "t", "a", "t", "u", "s", "/", "1", "2">>
PathB1      == <<"/", "b", "_", "1", "/", "s", "t", "a", "t", "u", "s", "/", "7">>
PathPost    == <<"/", "p", "o", "s", "t", "/", "1">>
PathNoId    == <<"/", "a", "l", "/", "s", "t", "a", "t", "u", "s", "/">>
PathIdJunk  == <<"/", "a", "l", "/", "s", "t", "a", "t", "u", "s", "/", "1", "2", "a", "b">>
PathPhoto   == <<"/", "a", "l", "/", "s", "t", "a", "t", "u", "s", "/", "1", "2",
                 "/", "p", "h", "o", "t", "o", "/", "1">>
TailQuery      == <<"?", "s", "=", "2">>
TailQuerySlash == <<"?", "r", "=", "a", "/", "b">>
TailQueryTwice == <<"?", "a", "?", "b">>

Schemes == {SchemeHttps, SchemeHttp, SchemeFtp}
Hosts   == {HostX, HostTwitter, HostExample}
Paths   == {PathAl, PathB1, PathPost, PathNoId, PathIdJunk, PathPhoto}
Tails   == {<<>>, TailQuery, TailQuerySlash, TailQueryTwice}

MakeUrl(scheme, host, path, tail) == scheme \o LitScheme \o host \o path \o tail

\* every URL string the single-URL runs are started with
UrlUniverse ==
    {MakeUrl(s, h, p, t) : s \in Schemes, h \in Hosts, p \in Paths, t \in Tails}

\* the URLs of the multi-URL runs: two posts and the malformed URL
GoodUrl  == MakeUrl(SchemeHttps, HostX, PathAl, <<>>)
OtherUrl == MakeUrl(SchemeHttp, HostTwitter, PathB1, TailQuery)
BadUrl   == MakeUrl(SchemeHttps, HostExample, PathPost, <<>>)
SampleUrls == {GoodUrl, OtherUrl, BadUrl}

\* the longest positional URL list of the multi-URL runs
MaxUrls == 2

RECURSIVE SeqsUpTo(_, _)
SeqsUpTo(S, n) ==
    IF n = 0 THEN {<<>>}
    ELSE SeqsUpTo(S, n - 1) \cup
         {Append(q, x) : q \in {r \in SeqsUpTo(S, n - 1) : Len(r) = n - 1}, x \in S}

Formats == {"json", "jsonl"}

\* lines of standard input, each with its line end: a post URL, a post
\* URL after two spaces, the malformed URL before a space, a word, nothing
LineGood     == GoodUrl \o <<"\n">>
LineIndented == <<" ", " ">> \o OtherUrl \o <<"\n">>
LineBad      == BadUrl \o <<" ", "\n">>
LineJunk     == <<"a", "l", "\n">>
LineBlank    == <<"\n">>

StdinSamples ==
    {<<>>,
     <<LineJunk>>,
     <<LineGood, LineJunk, LineBad>>,
     <<LineBlank, LineIndented, LineGood>>}

\* the largest --limit
MaxLimit == 3

Limits == {None} \cup {Some(n) : n \in -1..MaxLimit}

\* the runs that read standard input or have a limit
StdinRuns ==
    {[stdin |-> TRUE, lines |-> l, urls |-> q, limit |-> n,
      format |-> "jsonl", output |-> FALSE] :
        l \in StdinSamples, q \in {<<>>, <<BadUrl>>}, n \in Limits}
    \cup
    {[stdin |-> FALSE, lines |-> <<LineGood>>, urls |-> <<BadUrl, OtherUrl>>,
      limit |-> n, format |-> "json", output |-> FALSE] :
        n \in {None, Some(1)}}

\* the parsed command line (lines 236-251) and the lines of standard input:
\* stdin is the --stdin flag, lines what standard input holds, output whether
\* --output was given
\* (the runs of one URL take every scheme, host, path and query with either
\* format and destination; the runs of several URLs write JSON Lines to a
\* file and the JSON document to standard output)
Runs ==
    {[stdin |-> FALSE, lines |-> <<>>, urls |-> <<u>>, limit |-> None,
      format |-> f, output |-> o] :
        u \in UrlUniverse, f \in Formats, o \in BOOLEAN}
    \cup
    {[stdin |-> FALSE, lines |-> <<>>, urls |-> q, limit |-> None,
      format |-> f, output |-> (f = "jsonl")] :
        q \in SeqsUpTo(SampleUrls, MaxUrls), f \in Formats}
    \cup StdinRuns

(***************************************************************************)
(* The state.                                                              *)
(***************************************************************************)
VARIABLES
    args,          \* the parsed command line and standard input
    urls,          \* urls_to_process
    pc,            \* where main is
    idx,           \* the 1-based index of the URL the loop is at
    result,        \* the record get_tweet_content is building / tweet_data
    all_results,   \* main's all_results
    payload,       \* what has been written to the output so far
    out_file,      \* "none", "open" or "closed"
    exit_code,     \* None while the program runs, Some(code) once it exited
    ended,         \* what ended the program, "" while it runs
    requests,      \* history: the <<URL index, strategy>> of every request
    returned,      \* history: the records process_url returned, in order
    last,          \* history: the last strategy step of the current URL
    interrupted,   \* history: a KeyboardInterrupt was delivered
    answered       \* history: the strategies answered with HTTP 200 for the
                   \* URL get_tweet_content is working on or has returned for

vars == <<args, urls, pc, idx, result, all_results, payload, out_file,
          exit_code, ended, requests, returned, last, interrupted, answered>>

NoStep == [k |-> 0, outcome |-> "none"]

Init ==
    /\ args \in Runs
    /\ urls = <<>>
    /\ pc = "start"
    /\ idx = 1
    /\ result = <<>>
    /\ all_results = <<>>
    /\ payload = <<>>
    /\ out_file = "none"
    /\ exit_code = None
    /\ ended = ""
    /\ requests = <<>>
    /\ returned = <<>>
    /\ last = NoStep
    /\ interrupted = FALSE
    /\ answered = {}

(***************************************************************************)
(* What the three endpoints may answer.  requests.get raises ("neterr"),   *)
(* answers with a status other than 200 ("status"), or answers 200; the    *)
(* embed API's body may fail to parse as JSON ("badjson").                 *)
(***************************************************************************)
TextFull       == <<"h", "i", " ", EmDash, " ", "A", "l", " ", "(", "@", "a", "l", ")", " ", "J", "1">>
TextSuffixOnly == <<EmDash, " ", "A", "l", " ", "(", "@", "a", "l", ")", " ", "J", "1">>
TextPlain      == <<"h", "i", " ", " ", "y", "o">>
TextBlank      == <<" ", "\n">>
NameAl         == <<"A", "l">>

EmptyObject == [k \in {} |-> <<>>]

OEmbedObjects ==
    {[html |-> [visible |-> TextFull, pic |-> TRUE]],
     [html |-> [visible |-> TextSuffixOnly, pic |-> FALSE]],
     [html |-> [visible |-> TextPlain, pic |-> FALSE], author_name |-> NameAl],
     [html |-> [visible |-> TextBlank, pic |-> TRUE]],
     EmptyObject}

Failures == {"neterr", "status", "badjson"}

Responses1 ==
    {[kind |-> "neterr"], [kind |-> "status"], [kind |-> "badjson"]}
    \cup {[kind |-> "ok", data |-> d] : d \in OEmbedObjects}

DescDash       == <<"h", "i", " ", EmDash, " ", "A", "l", " ", "(", "@", "a", "l", ")", " ", "J", "1">>
DescPic        == <<"h", "i", " ", "p", "i", "c", ".", "t", "w", "i", "t", "t", "e", "r", ".", "c", "o", "m", "/", "x">>
DescPlain      == <<"y", "o">>
DescDashOnly   == <<" ", EmDash, " ", "A", "l", " ", "(", "@", "a", "l", ")", " ", "J", "1">>
TitleOnX       == <<"A", "l", " ", "o", "n", " ", "X", ":", " ", "h", "i">>
TitleOnTwitter == <<"A", "l", " ", "o", "n", " ", "T", "w", "i", "t", "t", "e", "r", ":", " ", "h", "i">>
TitleOther     == <<"h", "i">>
ImgProfile     == <<"p", "r", "o", "f", "i", "l", "e", "_", "i", "m", "a", "g", "e", "s", "/", "a">>
ImgAsset       == <<"r", "e", "s", "p", "o", "n", "s", "i", "v", "e", "-", "w", "e", "b", "/", "a">>
ImgMedia       == <<"m", "/", "a", ".", "j", "p", "g">>
DateTag        == <<"T", "1">>
DateMeta       == <<"T", "2">>
DateCreated    == <<"T", "3">>
DatePublished  == <<"T", "4">>

ScriptBad       == [parse |-> "error"]
ScriptList      == [parse |-> "list"]
ScriptCreated   == [parse |-> "dict", data |-> [dateCreated |-> DateCreated]]
ScriptPublished == [parse |-> "dict", data |-> [datePublished |-> DatePublished]]
ScriptOther     == [parse |-> "dict", data |-> EmptyObject]

NoPage ==
    [description |-> <<>>, title |-> <<>>, image |-> <<>>, time |-> <<>>,
     published_time |-> <<>>, scripts |-> <<>>]

Pages ==
    {NoPage,
     [NoPage EXCEPT !.description = DescDash, !.title = TitleOnX,
                    !.image = ImgMedia, !.time = DateTag,
                    !.published_time = DateMeta],
     [NoPage EXCEPT !.description = DescPic, !.title = TitleOnTwitter,
                    !.image = ImgProfile, !.published_time = DateMeta],
     [NoPage EXCEPT !.description = DescPlain, !.title = TitleOther,
                    !.image = ImgAsset],
     [NoPage EXCEPT !.description = DescDashOnly],
     [NoPage EXCEPT !.title = TitleOnX, !.image = ImgMedia,
                    !.scripts = <<ScriptBad, ScriptList, ScriptOther,
                                  ScriptPublished, ScriptCreated>>]}

Responses2 ==
    {[kind |-> "neterr"], [kind |-> "status"]}
    \cup {[kind |-> "ok", page |-> g] : g \in Pages}

FragText  == <<" ", "y", "o", " ">>
NameBo    == <<"B", "o">>
HandleBo  == <<"@", "b", "o">>
ImgCard   == <<"m", "/", "b", ".", "j", "p", "g">>
DateAttr  == <<"T", "5">>
DateTitle == <<"T", "6">>

NoFragment ==
    [tweet_text |-> None, fullname |-> None, username |-> None,
     media |-> <<>>, time |-> None]

Fragments ==
    {NoFragment,
     [tweet_text |-> Some(FragText), fullname |-> Some(NameBo),
      username |-> Some(HandleBo), media |-> <<ImgCard, <<>>>>,
      time |-> Some([datetime |-> DateAttr, title |-> DateTitle])],
     [tweet_text |-> Some(<<" ">>), fullname |-> Some(NameBo),
      username |-> None, media |-> << <<>> >>,
      time |-> Some([datetime |-> <<>>, title |-> DateTitle])]}

Responses3 ==
    {[kind |-> "neterr"], [kind |-> "status"]}
    \cup {[kind |-> "ok", frag |-> g] : g \in Fragments}

(***************************************************************************)
(* main (lines 253-350).                                                   *)
(***************************************************************************)
LitHttpScheme  == <<"h", "t", "t", "p", ":", "/", "/">>
LitHttpsScheme == <<"h", "t", "t", "p", "s", ":", "/", "/">>

\* lines 258-261
RECURSIVE AcceptedLines(_)
AcceptedLines(lines) ==
    IF lines = <<>> THEN <<>>
    ELSE LET url == Strip(lines[1])
         IN  IF url # <<>> /\ (HasAt(url, 1, LitHttpScheme) \/ HasAt(url, 1, LitHttpsScheme))
             THEN <<url>> \o AcceptedLines(Tail(lines))
             ELSE AcceptedLines(Tail(lines))

\* GatheredUrls with the positional URLs put first
GatheredUrlsArgsFirst(a) == a.urls \o (IF a.stdin THEN AcceptedLines(a.lines) ELSE <<>>)

\* lines 253-267: urls_to_process before the limit
GatheredUrls(a) == (IF a.stdin THEN AcceptedLines(a.lines) ELSE <<>>) \o a.urls

\* q[:n] for n > 0
Take(q, n) == SubSeq(q, 1, IF n < Len(q) THEN n ELSE Len(q))

\* lines 275-276
LimitedUrls(a) ==
    IF a.limit # None /\ a.limit[1] # 0 /\ a.limit[1] > 0
    THEN Take(GatheredUrls(a), a.limit[1])
    ELSE GatheredUrls(a)

\* Exit without the finally clause
ExitLeavesOpen(code, why) ==
    /\ pc' = "exit"
    /\ exit_code' = Some(code)
    /\ ended' = why
    /\ UNCHANGED out_file

\* The program ends with an exit code: sys.exit(code), the end of main, or
\* an exception nothing catches (Python exits with 1).  The finally clause
\* of lines 345-348 closes the output file if it is open
Exit(code, why) ==
    /\ pc' = "exit"
    /\ exit_code' = Some(code)
    /\ ended' = why
    /\ out_file' = IF out_file = "open" THEN "closed" ELSE out_file

Running == UNCHANGED <<exit_code, ended, out_file>>

\* lines 253-290: gather the URLs, exit 1 if there are none, apply the
\* limit, open the output file (exit 1 if that fails)
Startup ==
    /\ pc = "start"
    /\ IF GatheredUrls(args) = <<>>
       THEN /\ Exit(1, "no_urls")
            /\ UNCHANGED urls
       ELSE /\ urls' = LimitedUrls(args)
            /\ \/ /\ pc' = "loop"
                  /\ out_file' = IF args.output THEN "open" ELSE "none"
                  /\ UNCHANGED <<exit_code, ended>>
               \/ /\ args.output
                  /\ Exit(1, "open_error")
    /\ UNCHANGED <<args, idx, result, all_results, payload, requests,
                   returned, last, interrupted, answered>>

\* SkipUrl with the exception escaping process_url: the program dies on it
SkipUrlAborts ==
    /\ Exit(1, "uncaught")
    /\ UNCHANGED <<idx, result>>

\* lines 19-21, 227-229 and 306-307: get_tweet_content raises ValueError,
\* process_url returns None and the loop continues with the next URL
SkipUrl ==
    /\ idx' = idx + 1
    /\ UNCHANGED <<result, pc>>
    /\ Running

\* lines 23-47: the record is set up and strategy 1 is next
StartUrl ==
    /\ result' = InitialRecord(urls[idx])
    /\ pc' = "m1"
    /\ UNCHANGED idx
    /\ Running

\* lines 299-305 and 225-226: the loop takes the next URL
ProcessUrl ==
    /\ pc = "loop"
    /\ idx <= Len(urls)
    /\ IF UrlValid(urls[idx]) THEN StartUrl ELSE SkipUrl
    /\ last' = NoStep
    /\ answered' = {}
    /\ UNCHANGED <<args, urls, all_results, payload, requests, returned,
                   interrupted>>

\* get_tweet_content returns result: process_url hands it to main (line 305)
Return(r, k) ==
    /\ result' = r
    /\ returned' = Append(returned, r)
    /\ last' = [k |-> k, outcome |-> "ok"]
    /\ pc' = "emit"
    /\ UNCHANGED idx

\* Decline with no except clause around the strategy: the error leaves
\* get_tweet_content, process_url catches it and the URL yields no record
DeclineRaises(r, k, outcome, next) ==
    /\ result' = r
    /\ last' = [k |-> k, outcome |-> outcome]
    /\ IF outcome \in Failures
       THEN pc' = "loop" /\ idx' = idx + 1
       ELSE pc' = next /\ idx' = idx
    /\ UNCHANGED returned

\* Decline going from strategy 1 straight to strategy 3
DeclineSkips(r, k, outcome, next) ==
    /\ result' = r
    /\ last' = [k |-> k, outcome |-> outcome]
    /\ pc' = IF k = 1 THEN "m3" ELSE next
    /\ UNCHANGED <<returned, idx>>

\* a strategy ends without returning (its except clause, a status other
\* than 200, or an empty text): the step called next follows
Decline(r, k, outcome, next) ==
    /\ result' = r
    /\ last' = [k |-> k, outcome |-> outcome]
    /\ pc' = next
    /\ UNCHANGED <<returned, idx>>

\* lines 50-89
Method1 ==
    /\ pc = "m1"
    /\ requests' = Append(requests, <<idx, 1>>)
    /\ \E resp \in Responses1 :
          /\ answered' = IF resp.kind = "ok" THEN answered \cup {1} ELSE answered
          /\ IF resp.kind = "ok"
             THEN Return(OEmbed(result, UsernameOf(urls[idx]), resp.data), 1)
             ELSE Decline(result, 1, resp.kind, "m2")
    /\ Running
    /\ UNCHANGED <<args, urls, all_results, payload, interrupted>>

\* lines 92-156
Method2 ==
    /\ pc = "m2"
    /\ requests' = Append(requests, <<idx, 2>>)
    /\ \E resp \in Responses2 :
          /\ answered' = IF resp.kind = "ok" THEN answered \cup {2} ELSE answered
          /\ IF resp.kind = "ok"
             THEN \E sig \in 0..Len(resp.page.scripts) :
                     /\ sig # 0 => ScanRuns(result, resp.page) /\ ScanReaches(resp.page.scripts, sig)
                     /\ interrupted' = (interrupted \/ sig # 0)
                     /\ LET r == DirectPage(result, resp.page, sig)
                        IN  IF r.text # <<>>
                            THEN Return(r, 2)
                            ELSE Decline(r, 2, "empty", "m3")
             ELSE /\ Decline(result, 2, resp.kind, "m3")
                  /\ UNCHANGED interrupted
    /\ Running
    /\ UNCHANGED <<args, urls, all_results, payload>>

\* lines 159-199
Method3 ==
    /\ pc = "m3"
    /\ requests' = Append(requests, <<idx, 3>>)
    /\ \E resp \in Responses3 :
          /\ answered' = IF resp.kind = "ok" THEN answered \cup {3} ELSE answered
          /\ IF resp.kind = "ok"
             THEN LET r == EmbedPage(result, resp.frag)
                  IN  IF r.text # <<>>
                      THEN Return(r, 3)
                      ELSE Decline(r, 3, "empty", "fallback")
             ELSE Decline(result, 3, resp.kind, "fallback")
    /\ Running
    /\ UNCHANGED <<args, urls, all_results, payload, interrupted>>

\* lines 201-205
Placeholder ==
    /\ pc = "fallback"
    /\ Return(Fallback(result, urls[idx]), 4)
    /\ Running
    /\ UNCHANGED <<args, urls, all_results, payload, requests, interrupted,
                   answered>>

\* WriteLine putting the newest line first
WriteLineFirst(tweet_data) == payload' = <<DumpsObject(tweet_data, None)>> \o payload

\* lines 313-318: one compact JSON object on a line of its own
WriteLine(tweet_data) == payload' = Append(payload, DumpsObject(tweet_data, None))

\* lines 306-322: the record is cleaned, then written as a line (jsonl) or
\* kept for the end (json).  print may raise (a full disk, a closed pipe):
\* nothing catches that
Emit ==
    /\ pc = "emit"
    /\ LET tweet_data == clean_tweet_data(result)
       IN  IF args.format = "jsonl"
           THEN \/ /\ WriteLine(tweet_data)
                   /\ pc' = "loop"
                   /\ idx' = idx + 1
                   /\ Running
                \/ /\ Exit(1, "write_error")
                   /\ UNCHANGED <<payload, idx>>
                /\ UNCHANGED all_results
           ELSE /\ all_results' = Append(all_results, tweet_data)
                /\ pc' = "loop"
                /\ idx' = idx + 1
                /\ Running
                /\ UNCHANGED payload
    /\ answered' = {}
    /\ UNCHANGED <<args, urls, result, requests, returned, last, interrupted>>

\* line 299: the loop is over
LoopDone ==
    /\ pc = "loop"
    /\ idx > Len(urls)
    /\ pc' = "final"
    /\ Running
    /\ UNCHANGED <<args, urls, idx, result, all_results, payload, requests,
                   returned, last, interrupted, answered>>

\* JsonDocument without the single-record case
JsonDocumentAlwaysArray(results) == DumpsArray(results, Some(2))

\* lines 326-330
JsonDocument(results) ==
    IF Len(results) = 1
    THEN DumpsObject(results[1], Some(2))
    ELSE DumpsArray(results, Some(2))

\* EndOfMain with exit code 1 when no URL produced a record
EndOfMainStrict == Exit(IF returned = <<>> THEN 1 ELSE 0, "done")

\* lines 345-350 and the return of main: the exit code is 0
EndOfMain == Exit(0, "done")

\* lines 324-335: JSON mode writes its one value, if there is a record.  A
\* failing print ends the program through the finally clause
Final ==
    /\ pc = "final"
    /\ IF args.format = "json" /\ all_results # <<>>
       THEN \/ /\ payload' = Append(payload, JsonDocument(all_results))
               /\ pc' = "end"
               /\ Running
            \/ /\ Exit(1, "write_error")
               /\ UNCHANGED payload
       ELSE /\ pc' = "end"
            /\ Running
            /\ UNCHANGED payload
    /\ UNCHANGED <<args, urls, idx, result, all_results, requests, returned,
                   last, interrupted, answered>>

\* lines 337-350: the try block is left, the finally clause runs, main ends
Finish ==
    /\ pc = "end"
    /\ EndOfMain
    /\ UNCHANGED <<args, urls, idx, result, all_results, payload, requests,
                   returned, last, interrupted, answered>>

\* where the try block of lines 292-338 is running
BatchPcs == {"loop", "m1", "m2", "m3", "fallback", "emit", "final", "end"}

\* lines 340-348: a KeyboardInterrupt reaches main's handler
Interrupt ==
    /\ pc \in BatchPcs
    /\ interrupted' = TRUE
    /\ Exit(130, "interrupt")
    /\ UNCHANGED <<args, urls, idx, result, all_results, payload, requests,
                   returned, last, answered>>

Next ==
    \/ Startup
    \/ ProcessUrl
    \/ Method1
    \/ Method2
    \/ Method3
    \/ Placeholder
    \/ Emit
    \/ LoopDone
    \/ Final
    \/ Finish
    \/ Interrupt

Spec == Init /\ [][Next]_vars

(***************************************************************************)
(* clean_tweet_data on its own (lines 210-217): the function is applied to *)
(* a record, then to what it returned.  args holds the argument.           *)
(***************************************************************************)
\* the records the function is applied to: the six keys of lines 28-35 with
\* a value or empty, media absent, empty or not, has_media absent or a bool
CleanRecords ==
    {[k \in {"text", "created_at", "user_name", "screen_name", "tweet_id", "url"}
            \cup (IF m = None THEN {} ELSE {"media"})
            \cup (IF h = None THEN {} ELSE {"has_media"}) |->
        IF k = "media" THEN m[1]
        ELSE IF k = "has_media" THEN h[1]
        ELSE IF k \in e THEN <<>>
        ELSE IF k = "text" THEN TextPlain
        ELSE IF k = "created_at" THEN DateTag
        ELSE IF k = "user_name" THEN NameAl
        ELSE IF k = "screen_name" THEN HandleBo
        ELSE IF k = "tweet_id" THEN <<"1", "2">>
        ELSE GoodUrl] :
        e \in SUBSET {"text", "created_at", "user_name", "screen_name", "tweet_id", "url"},
        m \in {None, Some(<<>>), Some(<<ImgMedia>>)},
        h \in {None, Some(TRUE), Some(FALSE)}}

CleanInit ==
    /\ args \in {[tweet_data |-> r] : r \in CleanRecords}
    /\ result = args.tweet_data
    /\ pc = "clean"
    /\ urls = <<>>
    /\ idx = 1
    /\ all_results = <<>>
    /\ payload = <<>>
    /\ out_file = "none"
    /\ exit_code = None
    /\ ended = ""
    /\ requests = <<>>
    /\ returned = <<>>
    /\ last = NoStep
    /\ interrupted = FALSE
    /\ answered = {}

\* CallClean with the empty fields deleted from the argument itself
CallCleanInPlace ==
    /\ all_results' = <<clean_tweet_data(result)>>
    /\ result' = clean_tweet_data(result)

\* lines 212-217: the function builds a new dict and returns it; it never
\* assigns to its argument
CallClean ==
    /\ all_results' = <<clean_tweet_data(result)>>
    /\ UNCHANGED result

CleanOnce ==
    /\ pc = "clean"
    /\ CallClean
    /\ pc' = "cleaned"
    /\ UNCHANGED <<args, urls, idx, payload, out_file, exit_code, ended,
                   requests, returned, last, interrupted, answered>>

\* the function applied to what it returned
CleanTwice ==
    /\ pc = "cleaned"
    /\ all_results' = Append(all_results, clean_tweet_data(all_results[1]))
    /\ pc' = "recleaned"
    /\ UNCHANGED <<args, urls, idx, result, payload, out_file, exit_code,
                   ended, requests, returned, last, interrupted, answered>>

CleanNext ==
    \/ CleanOnce
    \/ CleanTwice

CleanSpec == CleanInit /\ [][CleanNext]_vars

(***************************************************************************)
(* Strategy 1 on its own (lines 55-87): the embed API answered HTTP 200    *)
(* with a fragment whose visible text is a body, a separator, an author,   *)
(* " (@", a handle, ") " and a date.  args holds the parts.                *)
(***************************************************************************)
Alphabet == {"a", " ", "-"}

\* the longest body, and the longest author, handle and date
MaxBody == 3
MaxPart == 1

\* the non-empty texts of at most n characters that neither start nor end
\* with a space
Words(n) == {q \in SeqsUpTo(Alphabet, n) : q # <<>> /\ Strip(q) = q}

EmbedInputs ==
    [body : Words(MaxBody), sep : SepChars, spaced : BOOLEAN,
     user : Words(MaxPart), screen_name : Words(MaxPart), date : Words(MaxPart)]

\* soup.get_text() of line 59 for these parts
VisibleText(a) ==
    LET gap == IF a.spaced THEN <<" ">> ELSE <<>>
    IN  a.body \o gap \o <<a.sep>> \o gap \o a.user \o LitOpenAt
            \o a.screen_name \o LitCloseSp \o a.date

EmbedInit ==
    /\ args \in EmbedInputs
    /\ urls = <<GoodUrl>>
    /\ result = InitialRecord(GoodUrl)
    /\ pc = "embed"
    /\ idx = 1
    /\ all_results = <<>>
    /\ payload = <<>>
    /\ out_file = "none"
    /\ exit_code = None
    /\ ended = ""
    /\ requests = <<>>
    /\ returned = <<>>
    /\ last = NoStep
    /\ interrupted = FALSE
    /\ answered = {}

\* lines 55-87 for that answer
EmbedOnce ==
    /\ pc = "embed"
    /\ result' = OEmbed(result, UsernameOf(urls[idx]),
                        [html |-> [visible |-> VisibleText(args), pic |-> FALSE]])
    /\ pc' = "embedded"
    /\ UNCHANGED <<args, urls, idx, all_results, payload, out_file, exit_code,
                   ended, requests, returned, last, interrupted, answered>>

EmbedNext == EmbedOnce

EmbedSpec == EmbedInit /\ [][EmbedNext]_vars

(***************************************************************************)
(* Notions the properties are stated with.                                 *)
(***************************************************************************)
\* the shape http(s)://(twitter|x).com/<username>/status/<numeric-id>,
\* optionally followed by a query string
WellShaped(url) ==
    LET e == UrlMatchEnd(url)
    IN  e # 0 /\ (e = Len(url) + 1 \/ url[e] = "?")

\* the numeric id path segment of an accepted URL: the digits after /status/
IdSegment(url) ==
    LET e == UrlMatchEnd(url)
        b == CHOOSE x \in 1..(e - 1) :
                AllIn(url, x, e - 1, Digits) /\ url[x - 1] \notin Digits
    IN  SubSeq(url, b, e - 1)

\* the path segment immediately following the domain
UserSegment(url) ==
    LET b == Find(url, LitDotCom) + Len(LitDotCom)
    IN  SubSeq(url, b, RunEnd(url, b, WordChars))

\* the URLs among the first n of the batch that the validator accepts
ValidAmong(n) == SelectSeq(SubSeq(urls, 1, n), UrlValid)

\* the number of URLs whose processing is over
Handled == IF pc = "emit" THEN idx ELSE idx - 1

\* the program was cut short inside the loop body
CutShort == pc = "exit" /\ ended \in {"write_error", "interrupt", "uncaught"}

\* the records of a payload, in the order written
RECURSIVE OutputRecords(_)
OutputRecords(written) ==
    IF written = <<>> THEN <<>>
    ELSE (IF "object" \in DOMAIN written[1]
          THEN <<written[1].object>>
          ELSE written[1].array) \o OutputRecords(Tail(written))

\* the JSON-Lines payload of a sequence of records
RECURSIVE Lines(_)
Lines(records) ==
    IF records = <<>> THEN <<>>
    ELSE <<DumpsObject(clean_tweet_data(records[1]), None)>> \o Lines(Tail(records))

Front(q) == SubSeq(q, 1, Len(q) - 1)

\* the step after strategy k
StepAfter(k) == IF k = 1 THEN "m2" ELSE IF k = 2 THEN "m3" ELSE "fallback"

(***************************************************************************)
(* C1.  get_tweet_content returns from strategy 1, 2 or 3 only with a      *)
(* non-empty text: a strategy that leaves text empty is followed by the    *)
(* next one.  Strategy 1 returns on every HTTP 200 (line 87), also with an *)
(* empty text, so this does not hold.                                      *)
(***************************************************************************)
C1_StopsOnlyWithText ==
    (pc = "emit" /\ last.k \in {1, 2, 3}) => result.text # <<>>

(***************************************************************************)
(* C2.  The record get_tweet_content returns has a non-empty text, and the *)
(* text set by the placeholder step is the fixed sentence, which contains  *)
(* the URL.  It fails with C1: strategy 1 can return an empty text.        *)
(***************************************************************************)
C2_TextNeverEmpty ==
    pc = "emit" =>
        /\ result.text # <<>>
        /\ last.k = 4 => /\ result.text = PlaceholderText(urls[idx])
                         /\ Contains(result.text, urls[idx])

(***************************************************************************)
(* C3.  A network error, a status other than 200 or an unparsable payload  *)
(* in a strategy does not leave get_tweet_content: the record is as it     *)
(* was and the next step (the next strategy, or the placeholder step after *)
(* strategy 3) follows for the same URL; and the pipeline of a URL is left *)
(* only by returning a record for that URL (or by the program ending).     *)
(***************************************************************************)
PipelinePcs == {"m1", "m2", "m3", "fallback"}

C3_FailedStrategyDeclines ==
    [][/\ (Len(requests') = Len(requests) + 1 /\ last'.outcome \in Failures)
            => /\ pc' = StepAfter(last'.k)
               /\ idx' = idx
               /\ result' = result
               /\ returned' = returned
               /\ exit_code' = None
       /\ (pc \in PipelinePcs /\ pc' \notin PipelinePcs \cup {"exit"})
            => /\ pc' = "emit"
               /\ idx' = idx
               /\ returned' = Append(returned, result')
               /\ result'.url = urls[idx]]_vars

C3_Witness ==
    /\ pc = "fallback"
    /\ last.k = 3
    /\ last.outcome \in Failures
    /\ Len(requests) = 3
    /\ result = InitialRecord(urls[idx])

C5_IllShapedRejected ==
    /\ \A n \in 1..Len(requests) : WellShaped(urls[requests[n][1]])
    /\ \A n \in 1..Len(returned) : WellShaped(returned[n].url)

(***************************************************************************)
(* C6.  For every URL the validator accepts, the record starts with        *)
(* tweet_id equal to the numeric id path segment and with user_name and    *)
(* screen_name equal to the path segment after the domain.  tweet_id is    *)
(* taken after the last '/' of the whole string (line 24), which may lie   *)
(* in the query string: the property fails already for the URLs that have *)
(* exactly the shape.                                                      *)
(***************************************************************************)
C6_FieldsFromUrl ==
    (pc = "m1" /\ WellShaped(urls[idx])) =>
        /\ result.tweet_id = IdSegment(urls[idx])
        /\ result.user_name = UserSegment(urls[idx])
        /\ result.screen_name = UserSegment(urls[idx])

(***************************************************************************)
(* C7.  Once an interrupt was delivered while the batch is running, the    *)
(* program has ended with exit code 130: nothing more is processed or      *)
(* written.  The bare except of line 149 swallows an interrupt that        *)
(* arrives while a JSON-LD block is parsed, and the batch goes on.         *)
(***************************************************************************)
C7_InterruptAborts ==
    interrupted => (pc = "exit" /\ exit_code = Some(130))

(***************************************************************************)
(* C8.  An invalid URL skips only itself: the loop goes on with the next   *)
(* URL, nothing is written and the program keeps running; when main runs   *)
(* to its end every URL was taken and the output holds the (cleaned)       *)
(* records process_url returned, no more and no less.                      *)
(***************************************************************************)
OutputIsWhatWasReturned ==
    ended = "done" =>
        /\ idx = Len(urls) + 1
        /\ OutputRecords(payload) = CleanAll(returned)

C8_FailureSkipsOneUrl ==
    [][/\ (/\ pc = "loop"
           /\ idx <= Len(urls)
           /\ ~UrlValid(urls[idx])
           /\ ended' # "interrupt")
            => /\ pc' = "loop"
               /\ idx' = idx + 1
               /\ exit_code' = None
               /\ payload' = payload
               /\ all_results' = all_results
               /\ returned' = returned
       /\ OutputIsWhatWasReturned']_vars

C8_Witness ==
    /\ ended = "done"
    /\ Len(urls) = 2
    /\ ~UrlValid(urls[1])
    /\ UrlValid(urls[2])
    /\ Len(OutputRecords(payload)) = 1
    /\ OutputRecords(payload)[1].url = urls[2]

(***************************************************************************)
(* C9.  In JSON-Lines mode the payload is one line per record returned,    *)
(* in input order, and nothing else: while the next URL is looked at the   *)
(* lines of all earlier records are written; skipped URLs have no line.    *)
(***************************************************************************)
C9_JsonLines ==
    args.format = "jsonl" =>
        /\ (pc = "emit" \/ CutShort)
              => payload \in {Lines(returned), Lines(Front(returned))}
        /\ pc = "emit" => payload = Lines(Front(returned))
        /\ ~(pc = "emit" \/ CutShort) => payload = Lines(returned)
        /\ ~CutShort => LET valid == ValidAmong(Handled)
                        IN  \A n \in 1..Len(returned) : returned[n].url = valid[n]

C9_Witness ==
    /\ args.format = "jsonl"
    /\ pc = "m1"
    /\ idx = 2
    /\ Len(payload) = 1
    /\ payload[1].object.url = urls[1]
    /\ urls[2] # urls[1]

(***************************************************************************)
(* C10.  In JSON mode nothing is written before every URL of the batch was *)
(* processed; what is written then is one JSON value: the bare object when *)
(* one URL produced a record, one array of the records in input order when *)
(* two or more did; nothing is written when none did.                      *)
(***************************************************************************)
C10_JsonDocument ==
    args.format = "json" =>
        /\ payload # <<>> => idx = Len(urls) + 1 /\ pc \in {"end", "exit"}
        /\ payload # <<>> \/ pc = "end" \/ ended = "done" =>
              payload = IF returned = <<>> THEN <<>>
                        ELSE IF Len(returned) = 1
                        THEN <<DumpsObject(clean_tweet_data(returned[1]), Some(2))>>
                        ELSE <<DumpsArray(CleanAll(returned), Some(2))>>

C10_Witness ==
    /\ args.format = "json"
    /\ ended = "done"
    /\ Len(returned) = 1
    /\ Len(urls) = 2
    /\ payload = <<DumpsObject(clean_tweet_data(returned[1]), Some(2))>>

(***************************************************************************)
(* C11.  clean_tweet_data returns a record with no field whose value is an *)
(* empty string or an empty list, with has_media whenever the argument has *)
(* it, whatever its value, and with every other field of the argument that *)
(* has a non-empty value, unchanged; it adds no field.                     *)
(***************************************************************************)
C11_CleanDropsEmpty ==
    pc \in {"cleaned", "recleaned"} =>
        LET r == args.tweet_data
            c == all_results[1]
        IN  /\ DOMAIN c \subseteq DOMAIN r
            /\ \A k \in DOMAIN c \ {"has_media"} : c[k] # <<>>
            /\ "has_media" \in DOMAIN r =>
                  "has_media" \in DOMAIN c /\ c.has_media = r.has_media
            /\ \A k \in DOMAIN r \ {"has_media"} :
                  r[k] # <<>> => k \in DOMAIN c /\ c[k] = r[k]

\* a record with an empty text, an empty media list and has_media false
\* was cleaned
C11_Witness ==
    /\ pc = "cleaned"
    /\ args.tweet_data.text = <<>>
    /\ "media" \in DOMAIN args.tweet_data
    /\ args.tweet_data.media = <<>>
    /\ "has_media" \in DOMAIN args.tweet_data
    /\ ~args.tweet_data.has_media
    /\ args.tweet_data.user_name # <<>>

(***************************************************************************)
(* C19.  clean_tweet_data is idempotent and leaves its argument as it was: *)
(* applied to what it returned it returns the same record again, and the   *)
(* record it was given is unchanged after the call.                        *)
(***************************************************************************)
C19_CleanIdempotent ==
    /\ pc \in {"cleaned", "recleaned"} => result = args.tweet_data
    /\ pc = "recleaned" => all_results[2] = all_results[1]

\* the function was applied twice to a record it drops fields of and whose
\* has_media is false
C19_Witness ==
    /\ pc = "recleaned"
    /\ all_results[1] # args.tweet_data
    /\ "has_media" \in DOMAIN all_results[1]
    /\ ~all_results[1].has_media

(***************************************************************************)
(* C12, as stated.  A returned record that carries the placeholder text    *)
(* has every other field at its URL-derived default: user_name and         *)
(* screen_name are the URL's username, created_at is empty, media and      *)
(* has_media are absent, whatever the strategies observed.  Strategies 2   *)
(* and 3 write the fields they find before they test the text (lines       *)
(* 110-150 and 173-193), so this does not hold.                            *)
(***************************************************************************)
C12_PlaceholderAllDefaults ==
    pc = "emit" /\ last.k = 4 =>
        result = [InitialRecord(urls[idx]) EXCEPT !.text = PlaceholderText(urls[idx])]

(***************************************************************************)
(* C12, amended.  A returned record that carries the placeholder text has  *)
(* the URL-derived url and tweet_id and no has_media, and strategy 1 did   *)
(* not answer HTTP 200 for it.  Its screen_name is the URL's username      *)
(* unless strategy 3 answered HTTP 200, and all its other fields are at    *)
(* their URL-derived defaults if neither strategy 2 nor strategy 3         *)
(* answered HTTP 200; what an answering strategy 2 or 3 found without a    *)
(* body stays in the record.                                               *)
(***************************************************************************)
C12_PlaceholderRecord ==
    pc = "emit" /\ last.k = 4 =>
        LET d == InitialRecord(urls[idx])
        IN  /\ result.text = PlaceholderText(urls[idx])
            /\ result.url = d.url
            /\ result.tweet_id = d.tweet_id
            /\ "has_media" \notin DOMAIN result
            /\ 1 \notin answered
            /\ 3 \notin answered => result.screen_name = d.screen_name
            /\ answered = {} => result = [d EXCEPT !.text = PlaceholderText(urls[idx])]

\* the placeholder record of a URL whose page gave an author and an image
\* but no description, and whose embed fragment was not served
C12_Witness ==
    /\ pc = "emit"
    /\ last.k = 4
    /\ answered = {2}
    /\ result.user_name # UsernameOf(urls[idx])
    /\ "media" \in DOMAIN result
    /\ result.text = PlaceholderText(urls[idx])

(***************************************************************************)
(* C13.  Once the output file has been opened it stays open while the      *)
(* batch runs and is closed on every way the program leaves the batch: at  *)
(* normal completion, on a user interrupt (exit code 130) and when an      *)
(* exception escapes the loop or the final write.                          *)
(***************************************************************************)
C13_FileClosed ==
    /\ pc \in BatchPcs /\ args.output => out_file = "open"
    /\ pc = "exit" => out_file # "open"
    /\ pc = "exit" /\ args.output /\ ended \in {"done", "interrupt", "write_error"} =>
          out_file = "closed"

\* a write to the opened file failed after a first line was written
C13_Witness ==
    /\ pc = "exit"
    /\ ended = "write_error"
    /\ payload # <<>>
    /\ out_file = "closed"

(***************************************************************************)
(* C14.  For one URL the three endpoints are requested at most once each   *)
(* and only in the order embed API, direct page, embed fragment: the first *)
(* request for a URL is to strategy 1, a request to strategy k+1 follows   *)
(* directly on the request to strategy k for the same URL and is made only *)
(* after strategy k finished without returning, and no request goes back   *)
(* to an earlier strategy or an earlier URL.                               *)
(***************************************************************************)
C14_StrategyOrder ==
    /\ requests # <<>> => requests[1][2] = 1
    /\ \A i \in 1..(Len(requests) - 1) :
          LET a == requests[i]
              b == requests[i + 1]
          IN  \/ b[1] = a[1] /\ b[2] = a[2] + 1
              \/ b[1] > a[1] /\ b[2] = 1
    /\ \A i \in 1..Len(requests) : requests[i][2] \in 1..3
    /\ \A k \in 1..3 :
          pc = StepAfter(k) =>
              /\ last.k = k
              /\ last.outcome # "ok"
              /\ requests[Len(requests)] = <<idx, k>>

\* all three strategies were requested for the first URL and the second
\* URL's first request followed
C14_Witness ==
    /\ Len(requests) = 4
    /\ requests[3] = <<1, 3>>
    /\ requests[4] = <<2, 1>>

(***************************************************************************)
(* C15.  When the embed API's visible text is a body, a separator (em-dash *)
(* or hyphen, with or without a space on each side), an author, " (@", a   *)
(* handle, ") " and a date, all non-empty, over an alphabet with space and *)
(* '-', the record has the body as text, the author as user_name, the      *)
(* handle as screen_name and the date as created_at.  The pattern of line  *)
(* 62 takes the first '-' or em-dash of the text as the separator, so a    *)
(* body that holds one is cut there and this does not hold.                *)
(***************************************************************************)
C15_PartsRecovered ==
    pc = "embedded" =>
        /\ result.text = args.body
        /\ result.user_name = args.user
        /\ result.screen_name = args.screen_name
        /\ result.created_at = args.date

(***************************************************************************)
(* C16.  has_media is set only by the embed API strategy and only to true, *)
(* and that strategy never sets media: a record that has has_media has it  *)
(* true, comes from strategy 1 and has no media; a record strategy 1       *)
(* returned has no media; no returned record has both.                     *)
(***************************************************************************)
C16_MediaFlagOrList ==
    /\ pc \in PipelinePcs \cup {"emit"} =>
          /\ "has_media" \in DOMAIN result =>
                /\ result.has_media = TRUE
                /\ last = [k |-> 1, outcome |-> "ok"]
                /\ "media" \notin DOMAIN result
          /\ last.k = 1 => "media" \notin DOMAIN result
          /\ "media" \in DOMAIN result => last.k \in 2..4
    /\ \A i \in 1..Len(returned) :
          /\ ~({"has_media", "media"} \subseteq DOMAIN returned[i])
          /\ "has_media" \in DOMAIN returned[i] => returned[i].has_media = TRUE

\* strategy 1 returned a record with a body and the flag
C16_Witness ==
    /\ pc = "emit"
    /\ last.k = 1
    /\ "has_media" \in DOMAIN result
    /\ result.text # <<>>
    /\ \E i \in 1..Len(returned) : "media" \in DOMAIN returned[i]

(***************************************************************************)
(* C17.  No strategy and no fall-through step changes the record's url or  *)
(* tweet_id: while get_tweet_content works on a URL, and in the record it   *)
(* returns, url is the input string unmodified and tweet_id the value      *)
(* derived from the URL before the first strategy ran.                     *)
(***************************************************************************)
C17_UrlAndIdKept ==
    /\ pc \in PipelinePcs \cup {"emit"} =>
          /\ result.url = urls[idx]
          /\ result.tweet_id = TweetIdOf(urls[idx])
    /\ pc = "emit" => returned # <<>> /\ returned[Len(returned)] = result

\* a URL with a query string went through all three strategies, two of
\* which answered, and the placeholder step
C17_Witness ==
    /\ pc = "emit"
    /\ last.k = 4
    /\ answered = {2, 3}
    /\ Contains(urls[idx], <<"?">>)
    /\ result.url = urls[idx]
    /\ result.user_name # UsernameOf(urls[idx])

(***************************************************************************)
(* C18.  The URLs a run is to process, given the standard-input lines it   *)
(* keeps, as the text of each kept line without surrounding whitespace:    *)
(* the kept lines in line order, then the positional URLs; with a limit    *)
(* n > 0 the first min(n, length) of them, otherwise all.                  *)
(***************************************************************************)
StartsWithScheme(s) == HasAt(s, 1, LitHttpScheme) \/ HasAt(s, 1, LitHttpsScheme)

ToProcessBeforeLimit(kept) ==
    (IF args.stdin THEN [i \in 1..Len(kept) |-> Strip(kept[i])] ELSE <<>>) \o args.urls

ToProcess(kept) ==
    LET all == ToProcessBeforeLimit(kept)
    IN  IF args.limit # None /\ args.limit[1] > 0 /\ args.limit[1] < Len(all)
        THEN SubSeq(all, 1, args.limit[1])
        ELSE all

\* the batch processes ToProcess(kept), in order, and the zero-URL exit is
\* decided on the sequence before the limit
ProcessesInOrder(kept) ==
    pc # "start" =>
        /\ ended = "no_urls" <=> ToProcessBeforeLimit(kept) = <<>>
        /\ ended # "no_urls" =>
              /\ urls = ToProcess(kept)
              /\ idx \in 1..(Len(urls) + 1)
              /\ \A i \in 1..Len(requests) : requests[i][1] \in 1..Len(urls)
              /\ ended = "done" =>
                    /\ idx = Len(urls) + 1
                    /\ [i \in 1..Len(returned) |-> returned[i].url] = ValidAmong(Len(urls))

(***************************************************************************)
(* C18, as stated.  The kept lines are those that start with http:// or    *)
(* https://.  The code tests the line after line.strip() (lines 259-260),  *)
(* so a line with whitespace before the scheme is kept too and this does   *)
(* not hold.                                                               *)
(***************************************************************************)
C18_LinesStartingWithScheme ==
    ProcessesInOrder(SelectSeq(args.lines, StartsWithScheme))

(***************************************************************************)
(* C18, amended.  The batch processes the sequence formed by the           *)
(* standard-input lines that start with http:// or https:// once their     *)
(* surrounding whitespace is stripped (the stripped text is the URL), in   *)
(* line order, followed by the positional URLs; with a limit n > 0 exactly *)
(* the first min(n, length) URLs of it, in order, and with no limit or a   *)
(* limit <= 0 all of them; the zero-URL exit (code 1) is decided before    *)
(* the limit is applied.                                                   *)
(***************************************************************************)
C18_UrlsProcessed ==
    ProcessesInOrder(SelectSeq(args.lines, LAMBDA l : StartsWithScheme(Strip(l))))

\* of a blank line, an indented post URL and a post URL on standard input
\* and one positional URL, a limit of 2 left the two posts, both processed
C18_Witness ==
    /\ ended = "done"
    /\ args.stdin
    /\ args.lines = <<LineBlank, LineIndented, LineGood>>
    /\ args.urls = <<BadUrl>>
    /\ args.limit = Some(2)
    /\ urls = <<OtherUrl, GoodUrl>>
    /\ Len(returned) = 2

====
